---- MODULE Spec2Model ----
(***************************************************************************)
(* Model of the HTTP/1.x codec of ltoddy/toot (src/protocol): the request  *)
(* decoder read_http_request with its line reader, the parsers of          *)
(* RequestLine, Header, Method and HttpVersion, Headers::get, and the      *)
(* response encoder RawResponse::into_vec.                                 *)
(*                                                                         *)
(* A byte is a one-character string; ASCII bytes stand for themselves and  *)
(* InvalidByte stands for a byte that is never valid UTF-8 (0xFF).  A      *)
(* byte string, and a decoded text, is a sequence of such characters.      *)
(***************************************************************************)
EXTENDS Integers, Sequences, FiniteSets, TLC

VARIABLES
    source,            \* decoder: the bytes the reader holds (Init input)
    pos,               \* decoder: number of bytes consumed from source
    pc,                \* position of the running operation
    line,              \* read_next_line: the line buffer
    prev_byte_was_cr,  \* read_next_line: the CR flag
    request_line,      \* read_http_request: local request_line, an Option
    headers,           \* the Headers collection (decoder local / response field)
    body,              \* the body, an Option (decoder local / response field)
    result,            \* what read_http_request returned
    buf,               \* read_http_request: the buffer vec![0; length]
    io_error,          \* the io::Error the reader raised, an Option (environment)
    reads,             \* number of read calls issued on the reader (environment)
    returned,          \* the lines read_next_line has returned, in order
    op,                \* parser calls: the function applied
    arg,               \* parser calls: its argument
    ret,               \* parser calls: its return value
    status_line,       \* encoder: the response's status line
    cursor             \* encoder: the output buffer of into_vec

vars == <<source, pos, pc, line, prev_byte_was_cr, request_line, headers, body,
          result, buf, io_error, reads, returned, op, arg, ret, status_line,
          cursor>>

decoderVars == <<source, pos, pc, line, prev_byte_was_cr, request_line, headers,
                 body, result, buf, io_error, reads, returned>>
callVars == <<op, arg, ret>>
encoderVars == <<status_line, cursor>>

----------------------------------------------------------------------------
(* Option and Result values *)

None == [tag |-> "None"]
Some(x) == [tag |-> "Some", v |-> x]
Ok(x) == [tag |-> "Ok", v |-> x]
Err(e) == [tag |-> "Err", e |-> e]
Pending == [tag |-> "Pending"]

IsSome(o) == o.tag = "Some"
IsOk(r) == r.tag = "Ok"
IsErr(r) == r.tag = "Err"

----------------------------------------------------------------------------
(* Characters *)

CR == "\r"
LF == "\n"
SP == " "
InvalidByte == "0xFF"
ReplacementChar == "U+FFFD"

CRLF == <<CR, LF>>

UpperCase == <<"A","B","C","D","E","F","G","H","I","J","K","L","M",
               "N","O","P","Q","R","S","T","U","V","W","X","Y","Z">>
LowerCase == <<"a","b","c","d","e","f","g","h","i","j","k","l","m",
               "n","o","p","q","r","s","t","u","v","w","x","y","z">>
Digits == <<"0","1","2","3","4","5","6","7","8","9">>

\* u8::to_ascii_lowercase
ToAsciiLower(c) ==
    IF \E i \in 1..Len(UpperCase) : UpperCase[i] = c
    THEN LowerCase[CHOOSE i \in 1..Len(UpperCase) : UpperCase[i] = c]
    ELSE c

\* str::eq_ignore_ascii_case
EqIgnoreAsciiCase(a, b) ==
    /\ Len(a) = Len(b)
    /\ \A i \in 1..Len(a) : ToAsciiLower(a[i]) = ToAsciiLower(b[i])

\* char::is_whitespace, on the characters of the model's alphabet
IsWhitespace(c) == c \in {" ", "\t", "\n", "\r", "\f"}

\* String::from_utf8_lossy: every ASCII byte is kept, the invalid byte
\* becomes U+FFFD
FromUtf8Lossy(bytes) ==
    [i \in 1..Len(bytes) |->
        IF bytes[i] = InvalidByte THEN ReplacementChar ELSE bytes[i]]

RECURSIVE TrimStart(_)
TrimStart(s) ==
    IF s = <<>> \/ ~IsWhitespace(Head(s)) THEN s ELSE TrimStart(Tail(s))

RECURSIVE TrimEnd(_)
TrimEnd(s) ==
    IF s = <<>> \/ ~IsWhitespace(s[Len(s)]) THEN s
    ELSE TrimEnd(SubSeq(s, 1, Len(s) - 1))

\* str::trim
Trim(s) == TrimEnd(TrimStart(s))

\* str::split(pat): the pieces between the leftmost non-overlapping
\* occurrences of pat, in order
RECURSIVE Split(_, _)
Split(s, pat) ==
    LET n == Len(pat)
        hits == {i \in 1..(Len(s) - n + 1) : SubSeq(s, i, i + n - 1) = pat}
    IN  IF hits = {} THEN <<s>>
        ELSE LET i == CHOOSE k \in hits : \A j \in hits : k <= j
             IN  <<SubSeq(s, 1, i - 1)>> \o Split(SubSeq(s, i + n, Len(s)), pat)

\* Iterator::next on the n-th call
NextPart(parts, n) == IF n <= Len(parts) THEN Some(parts[n]) ELSE None

----------------------------------------------------------------------------
(* str::parse::<usize> *)

DigitValue(c) == (CHOOSE i \in 1..Len(Digits) : Digits[i] = c) - 1

IsDigit(c) == \E i \in 1..Len(Digits) : Digits[i] = c

RECURSIVE DecimalValue(_)
DecimalValue(d) ==
    IF d = <<>> THEN 0
    ELSE 10 * DecimalValue(SubSeq(d, 1, Len(d) - 1)) + DigitValue(d[Len(d)])

\* A digit string without its leading zeros (one digit is always kept)
RECURSIVE StripZeros(_)
StripZeros(d) == IF Len(d) > 1 /\ Head(d) = "0" THEN StripZeros(Tail(d)) ELSE d

\* a > b for digit strings without leading zeros
NumeralGreater(a, b) ==
    \/ Len(a) > Len(b)
    \/ /\ Len(a) = Len(b)
       /\ \E i \in 1..Len(a) :
            /\ DigitValue(a[i]) > DigitValue(b[i])
            /\ \A j \in 1..(i - 1) : a[j] = b[j]

\* usize::MAX and isize::MAX of a 64-bit target, as digit strings
UsizeMax ==
    <<"1","8","4","4","6","7","4","4","0","7","3","7","0","9","5","5","1","6","1","5">>
IsizeMax ==
    <<"9","2","2","3","3","7","2","0","3","6","8","5","4","7","7","5","8","0","7">>

\* A usize of more than nine digits: beyond the integers of this model, it
\* is kept as its digit string
Beyond(d) == [tag |-> "Beyond", digits |-> d]
IsBeyond(o) == o.tag = "Beyond"

\* An optional "+" and at least one decimal digit; a "-" is no digit of an
\* unsigned type, and a number above usize::MAX is an overflow error.
ParseUsize(s) ==
    LET d == IF s # <<>> /\ Head(s) = "+" THEN Tail(s) ELSE s
    IN  IF d = <<>> \/ \E i \in 1..Len(d) : ~IsDigit(d[i])
        THEN None
        ELSE IF NumeralGreater(StripZeros(d), UsizeMax) THEN None
        ELSE IF Len(StripZeros(d)) > 9 THEN Beyond(StripZeros(d))
        ELSE Some(DecimalValue(d))

----------------------------------------------------------------------------
(* ParseRequestError *)

IoError(kind) == [kind |-> "Io", payload |-> kind]
UnknownMethod(s) == [kind |-> "UnknownMethod", payload |-> s]
UnknownHttpVersion(s) == [kind |-> "UnknownHttpVersion", payload |-> s]
RequestLineError(s) == [kind |-> "RequestLine", payload |-> s]
InvalidHeader(s) == [kind |-> "InvalidHeader", payload |-> s]

\* Mutant: the kind of the io::Error is dropped
FromIoErrorKindLost(e) == IoError("Other")

\* impl From<io::Error> for ParseRequestError
FromIoError(e) == IoError(e.kind)

----------------------------------------------------------------------------
(* Method and HttpVersion *)

Methods == {"GET", "HEAD", "POST", "PUT", "DELETE", "PATCH", "OPTIONS", "TRACE"}
HttpVersions == {"Http0_9", "Http1_0", "Http1_1"}

\* impl FromStr for Method
MethodFromStr(s) ==
    CASE s = <<"G","E","T">> -> Ok("GET")
      [] s = <<"H","E","A","D">> -> Ok("HEAD")
      [] s = <<"P","O","S","T">> -> Ok("POST")
      [] s = <<"P","U","T">> -> Ok("PUT")
      [] s = <<"D","E","L","E","T","E">> -> Ok("DELETE")
      [] s = <<"P","A","T","C","H">> -> Ok("PATCH")
      [] s = <<"O","P","T","I","O","N","S">> -> Ok("OPTIONS")
      [] s = <<"T","R","A","C","E">> -> Ok("TRACE")
      [] OTHER -> Err(UnknownMethod(s))

\* Method::as_str with the arm of PUT copied from POST
MethodAsStrPutAsPost(m) ==
    CASE m = "GET" -> <<"G","E","T">>
      [] m = "HEAD" -> <<"H","E","A","D">>
      [] m = "POST" -> <<"P","O","S","T">>
      [] m = "PUT" -> <<"P","O","S","T">>
      [] m = "DELETE" -> <<"D","E","L","E","T","E">>
      [] m = "PATCH" -> <<"P","A","T","C","H">>
      [] m = "OPTIONS" -> <<"O","P","T","I","O","N","S">>
      [] m = "TRACE" -> <<"T","R","A","C","E">>

\* Method::as_str
MethodAsStr(m) ==
    CASE m = "GET" -> <<"G","E","T">>
      [] m = "HEAD" -> <<"H","E","A","D">>
      [] m = "POST" -> <<"P","O","S","T">>
      [] m = "PUT" -> <<"P","U","T">>
      [] m = "DELETE" -> <<"D","E","L","E","T","E">>
      [] m = "PATCH" -> <<"P","A","T","C","H">>
      [] m = "OPTIONS" -> <<"O","P","T","I","O","N","S">>
      [] m = "TRACE" -> <<"T","R","A","C","E">>

\* HttpVersion parsing that compares ignoring ASCII case
HttpVersionFromStrAnyCase(s) ==
    CASE EqIgnoreAsciiCase(s, <<"H","T","T","P","/","0",".","9">>) -> Ok("Http0_9")
      [] EqIgnoreAsciiCase(s, <<"H","T","T","P","/","1",".","0">>) -> Ok("Http1_0")
      [] EqIgnoreAsciiCase(s, <<"H","T","T","P","/","1",".","1">>) -> Ok("Http1_1")
      [] OTHER -> Err(UnknownHttpVersion(s))

\* impl FromStr for HttpVersion
HttpVersionFromStr(s) ==
    CASE s = <<"H","T","T","P","/","0",".","9">> -> Ok("Http0_9")
      [] s = <<"H","T","T","P","/","1",".","0">> -> Ok("Http1_0")
      [] s = <<"H","T","T","P","/","1",".","1">> -> Ok("Http1_1")
      [] OTHER -> Err(UnknownHttpVersion(s))

\* HttpVersion::as_str
HttpVersionAsStr(v) ==
    CASE v = "Http0_9" -> <<"H","T","T","P","/","0",".","9">>
      [] v = "Http1_0" -> <<"H","T","T","P","/","1",".","0">>
      [] v = "Http1_1" -> <<"H","T","T","P","/","1",".","1">>

\* Result::ok
ResultOk(r) == IF IsOk(r) THEN Some(r.v) ELSE None

\* Option::ok_or(err)?
OkOr(o, err) == IF IsSome(o) THEN Ok(o.v) ELSE Err(err)

----------------------------------------------------------------------------
(* RequestLine *)

\* Mutant: the method and version parse errors are returned as they are
RequestLineFromStrTokenError(s) ==
    LET parts == Split(s, <<SP>>)
        m == IF Len(parts) >= 1 THEN MethodFromStr(parts[1])
             ELSE Err(RequestLineError(s))
        v == IF Len(parts) >= 3 THEN HttpVersionFromStr(parts[3])
             ELSE Err(RequestLineError(s))
    IN  IF IsErr(m) THEN m
        ELSE IF IsErr(v) THEN v
        ELSE Ok([method |-> m.v, uri |-> parts[2], version |-> v.v])

\* impl FromStr for RequestLine
RequestLineFromStr(s) ==
    LET parts == Split(s, <<SP>>)
        p1 == NextPart(parts, 1)
        p2 == NextPart(parts, 2)
        p3 == NextPart(parts, 3)
        method == IF IsSome(p1) THEN ResultOk(MethodFromStr(p1.v)) ELSE None
        uri == p2
        version == IF IsSome(p3) THEN ResultOk(HttpVersionFromStr(p3.v)) ELSE None
        m == OkOr(method, RequestLineError(s))
        u == OkOr(uri, RequestLineError(s))
        v == OkOr(version, RequestLineError(s))
    IN  IF IsErr(m) THEN m
        ELSE IF IsErr(u) THEN u
        ELSE IF IsErr(v) THEN v
        ELSE Ok([method |-> m.v, uri |-> u.v, version |-> v.v])

----------------------------------------------------------------------------
(* Header and Headers *)

HeaderSeparator == <<":", SP>>

\* Mutant: a line without the separator is a header with an empty value
HeaderFromStrLenient(s) ==
    LET parts == Split(s, <<":", SP>>)
    IN  Ok([field |-> parts[1],
            value |-> IF Len(parts) >= 2 THEN Trim(parts[2]) ELSE <<>>])

\* impl FromStr for Header
HeaderFromStr(s) ==
    LET parts == Split(s, HeaderSeparator)
        p1 == NextPart(parts, 1)
        p2 == NextPart(parts, 2)
        field == OkOr(p1, InvalidHeader(s))
        value == OkOr(IF IsSome(p2) THEN Some(Trim(p2.v)) ELSE None,
                      InvalidHeader(s))
    IN  IF IsErr(field) THEN field
        ELSE IF IsErr(value) THEN value
        ELSE Ok([field |-> field.v, value |-> value.v])

\* Headers::empty
HeadersEmpty == <<>>

\* Mutant: the last matching entry is returned
HeadersGetLast(hs, field) ==
    LET hits == {i \in 1..Len(hs) : EqIgnoreAsciiCase(hs[i].field, field)}
    IN  IF hits = {} THEN None
        ELSE Some(hs[CHOOSE i \in hits : \A j \in hits : i >= j].value)

\* Headers::get: Iterator::find takes the first entry that matches
HeadersGet(hs, field) ==
    LET hits == {i \in 1..Len(hs) : EqIgnoreAsciiCase(hs[i].field, field)}
    IN  IF hits = {} THEN None
        ELSE Some(hs[CHOOSE i \in hits : \A j \in hits : i <= j].value)

ContentLength == <<"C","o","n","t","e","n","t","-","L","e","n","g","t","h">>

----------------------------------------------------------------------------
(* Bounds and inputs of the decoder *)

MaxHeaders == 2
MaxTail == 3

IoErrorKinds == {"ConnectionReset"}

RequestLineInputs ==
    { <<"G","E","T"," ","/"," ","H","T","T","P","/","1",".","1">>,
      <<"G","E","T"," ","/">> }

HeaderLineInputs ==
    { <<"C","o","n","t","e","n","t","-","L","e","n","g","t","h",":"," ","2">>,
      <<"c","o","n","t","e","n","t","-","l","e","n","g","t","h",":"," ","0">>,
      <<"C","o","n","t","e","n","t","-","L","e","n","g","t","h",":"," ","x">>,
      <<"a",":"," ","\n","b","\r">>,
      <<"a",InvalidByte>>,
      <<":"," ","x">>,
      ContentLength \o <<":", " ">> \o
          <<"9","2","2","3","3","7","2","0","3","6","8","5","4","7","7","5","8","0","8">> }

TailAlphabet == <<"h","i","!">>
TailBytes(n) == [i \in 1..n |-> TailAlphabet[((i - 1) % Len(TailAlphabet)) + 1]]

RECURSIVE Flatten(_)
Flatten(ss) == IF ss = <<>> THEN <<>> ELSE Head(ss) \o Flatten(Tail(ss))

\* Sequences over S of length at most n
SeqUpTo(S, n) == UNION {[1..k -> S] : k \in 0..n}

WithCRLF(ls) == [i \in 1..Len(ls) |-> ls[i] \o CRLF]

\* A request line, header lines (each CRLF-terminated), the blank line or
\* none (the source ends early), and the bytes after it; and two sources
\* that end inside the request line.
Sources ==
    { r \o CRLF \o Flatten(WithCRLF(hs)) \o (IF blank THEN CRLF ELSE <<>>)
        \o TailBytes(t) :
        r \in RequestLineInputs, hs \in SeqUpTo(HeaderLineInputs, MaxHeaders),
        blank \in BOOLEAN, t \in 0..MaxTail }
    \cup { <<>>, <<"G","E","T",CR>> }

----------------------------------------------------------------------------
(* The request decoder: read_http_request and read_next_line *)

Reading == {"request_line", "headers"}

RawRequest(rl, hs, b) == [request_line |-> rl, headers |-> hs, body |-> b]

\* Mutant: the error is recorded and the decoder goes on reading
FailKeepReading(e) ==
    /\ result' = Err(e)
    /\ UNCHANGED <<pc, request_line, headers, body, buf>>
    /\ line' = <<>>
    /\ prev_byte_was_cr' = FALSE

\* An early return with an error (the ? operator): the locals are dropped
Fail(e) ==
    /\ result' = Err(e)
    /\ pc' = "done"
    /\ request_line' = None
    /\ headers' = HeadersEmpty
    /\ body' = None
    /\ buf' = <<>>
    /\ line' = <<>>
    /\ prev_byte_was_cr' = FALSE

\* A panic or an abort inside read_http_request: nothing is returned, the
\* locals are dropped
Dies(how) ==
    /\ result' = [tag |-> how]
    /\ pc' = "dead"
    /\ request_line' = None
    /\ headers' = HeadersEmpty
    /\ body' = None
    /\ buf' = <<>>
    /\ line' = <<>>
    /\ prev_byte_was_cr' = FALSE

\* Mutant: the Content-Length lookup compares the field case-sensitively
DeclaredLengthExactCase(hs) ==
    LET at == {i \in 1..Len(hs) : hs[i].field = ContentLength}
    IN  IF at = {} THEN None
        ELSE ParseUsize(hs[CHOOSE i \in at : \A j \in at : i <= j].value)

\* The length of the first Content-Length header whose value parses
DeclaredLengthFirstValid(hs) ==
    LET at == {i \in 1..Len(hs) :
                  /\ EqIgnoreAsciiCase(hs[i].field, ContentLength)
                  /\ IsSome(ParseUsize(hs[i].value))}
    IN  IF at = {} THEN None
        ELSE ParseUsize(hs[CHOOSE i \in at : \A j \in at : i <= j].value)

\* headers.get("Content-Length").and_then(|v| v.parse::<usize>().ok())
DeclaredLength(hs) ==
    LET v == HeadersGet(hs, ContentLength)
    IN  IF IsSome(v) THEN ParseUsize(v.v) ELSE None

\* read_http_request once read_next_line returned the request line
RequestLineRead(l) ==
    LET r == RequestLineFromStr(FromUtf8Lossy(l))
    IN  IF IsOk(r)
        THEN /\ request_line' = Some(r.v)
             /\ headers' = HeadersEmpty
             /\ pc' = "headers"
             /\ line' = <<>>
             /\ prev_byte_was_cr' = FALSE
             /\ UNCHANGED <<body, buf, result>>
        ELSE Fail(r.e)

\* vec![0; length] for a length beyond the integers of this model: above
\* isize::MAX the capacity overflows and the call panics; up to it the
\* allocator either fails, which aborts the process, or hands out a buffer
\* that no source of this model can fill
HugeBuffer(digits) ==
    IF NumeralGreater(digits, IsizeMax) THEN Dies("Panicked")
    ELSE \/ Dies("Aborted")
         \/ /\ buf' = [i \in 1..(Len(source) + 1) |-> 0]
            /\ pc' = "body"
            /\ line' = <<>>
            /\ prev_byte_was_cr' = FALSE
            /\ UNCHANGED <<request_line, headers, body, result>>

\* read_http_request once read_next_line returned the empty line: the loop
\* breaks and the body is decided
HeadersEnd ==
    LET length == DeclaredLength(headers)
    IN  IF IsBeyond(length) THEN HugeBuffer(length.digits)
        ELSE /\ line' = <<>>
             /\ prev_byte_was_cr' = FALSE
             /\ IF IsSome(length)
                THEN /\ buf' = [i \in 1..length.v |-> 0]
                     /\ pc' = "body"
                     /\ UNCHANGED <<request_line, headers, body, result>>
                ELSE /\ body' = None
                     /\ result' = Ok(RawRequest(request_line.v, headers, None))
                     /\ pc' = "done"
                     /\ UNCHANGED <<request_line, headers, buf>>

\* Mutant: a header whose field is already held replaces that entry
HeaderLineReadUpsert(l) ==
    IF l = <<>> THEN HeadersEnd
    ELSE LET h == HeaderFromStr(FromUtf8Lossy(l))
             at == {i \in 1..Len(headers) : headers[i].field = h.v.field}
         IN  IF IsOk(h)
             THEN /\ headers' = IF at = {} THEN Append(headers, h.v)
                                 ELSE [headers EXCEPT ![CHOOSE i \in at : TRUE] = h.v]
                  /\ line' = <<>>
                  /\ prev_byte_was_cr' = FALSE
                  /\ UNCHANGED <<pc, request_line, body, buf, result>>
             ELSE Fail(h.e)

\* read_http_request once read_next_line returned a line of the header loop
HeaderLineRead(l) ==
    IF l = <<>> THEN HeadersEnd
    ELSE LET h == HeaderFromStr(FromUtf8Lossy(l))
         IN  IF IsOk(h)
             THEN /\ headers' = Append(headers, h.v)
                  /\ line' = <<>>
                  /\ prev_byte_was_cr' = FALSE
                  /\ UNCHANGED <<pc, request_line, body, buf, result>>
             ELSE Fail(h.e)

\* read_next_line returns Ok(line) to read_http_request
LineRead(l) ==
    IF pc = "request_line" THEN RequestLineRead(l) ELSE HeaderLineRead(l)

\* read_next_line that ends the line on every LF
NextLineByteBareLF(byte) ==
    IF byte = LF
    THEN LET l == IF prev_byte_was_cr THEN SubSeq(line, 1, Len(line) - 1) ELSE line
         IN  /\ LineRead(l)
             /\ returned' = Append(returned, l)
    ELSE /\ prev_byte_was_cr' = (byte = CR)
         /\ line' = Append(line, byte)
         /\ UNCHANGED <<pc, request_line, headers, body, buf, result, returned>>

\* One turn of read_next_line's loop on the byte read_u8 delivered
NextLineByte(byte) ==
    IF byte = LF /\ prev_byte_was_cr
    THEN /\ LineRead(SubSeq(line, 1, Len(line) - 1))
         /\ returned' = Append(returned, SubSeq(line, 1, Len(line) - 1))
    ELSE /\ prev_byte_was_cr' = (byte = CR)
         /\ line' = Append(line, byte)
         /\ UNCHANGED <<pc, request_line, headers, body, buf, result, returned>>

\* reader.read_u8() delivers the next byte
ReadU8Ok ==
    /\ pc \in Reading
    /\ pos < Len(source)
    /\ pos' = pos + 1
    /\ reads' = reads + 1
    /\ NextLineByte(source[pos + 1])
    /\ UNCHANGED <<source, io_error>>

\* reader.read_u8() at the end of the source: UnexpectedEof
ReadU8Eof ==
    /\ pc \in Reading
    /\ pos = Len(source)
    /\ reads' = reads + 1
    /\ io_error' = Some([kind |-> "UnexpectedEof"])
    /\ Fail(FromIoError([kind |-> "UnexpectedEof"]))
    /\ UNCHANGED <<source, pos, returned>>

\* reader.read_u8() fails in the transport
ReadU8Err ==
    /\ pc \in Reading
    /\ \E k \in IoErrorKinds :
         /\ io_error' = Some([kind |-> k])
         /\ Fail(FromIoError([kind |-> k]))
    /\ reads' = reads + 1
    /\ UNCHANGED <<source, pos, returned>>

\* read_http_request once read_exact filled the buffer: Some(body) and Ok(request)
BodyRead(bytes) ==
    /\ body' = Some(bytes)
    /\ result' = Ok(RawRequest(request_line.v, headers, Some(bytes)))
    /\ pc' = "done"
    /\ UNCHANGED <<request_line, headers, buf, line, prev_byte_was_cr>>

\* A body read that takes everything the source still holds, as
\* read_to_end would, and keeps the declared number of bytes
ReadExactOkToEnd ==
    /\ pc = "body"
    /\ Len(source) - pos >= Len(buf)
    /\ pos' = Len(source)
    /\ reads' = IF Len(buf) = 0 THEN reads ELSE reads + 1
    /\ BodyRead(SubSeq(source, pos + 1, pos + Len(buf)))
    /\ UNCHANGED <<source, io_error, returned>>

\* reader.read_exact(&mut body) fills the whole buffer; an empty buffer is
\* full without a read
ReadExactOk ==
    /\ pc = "body"
    /\ Len(source) - pos >= Len(buf)
    /\ pos' = pos + Len(buf)
    /\ reads' = IF Len(buf) = 0 THEN reads ELSE reads + 1
    /\ BodyRead(SubSeq(source, pos + 1, pos + Len(buf)))
    /\ UNCHANGED <<source, io_error, returned>>

\* reader.read_exact(&mut body) meets the end of the source before the
\* buffer is full: the rest of the source is consumed, UnexpectedEof
ReadExactEof ==
    /\ pc = "body"
    /\ Len(source) - pos < Len(buf)
    /\ pos' = Len(source)
    /\ reads' = reads + 1
    /\ io_error' = Some([kind |-> "UnexpectedEof"])
    /\ Fail(FromIoError([kind |-> "UnexpectedEof"]))
    /\ UNCHANGED <<source, returned>>

\* reader.read_exact(&mut body) fails in the transport after n bytes
ReadExactErr ==
    /\ pc = "body"
    /\ Len(buf) > 0
    /\ \E k \in IoErrorKinds, n \in 0..(Len(buf) - 1) :
         /\ n <= Len(source) - pos
         /\ pos' = pos + n
         /\ io_error' = Some([kind |-> k])
         /\ Fail(FromIoError([kind |-> k]))
    /\ reads' = reads + 1
    /\ UNCHANGED <<source, returned>>

Init ==
    /\ source \in Sources
    /\ pos = 0
    /\ pc = "request_line"
    /\ line = <<>>
    /\ prev_byte_was_cr = FALSE
    /\ request_line = None
    /\ headers = HeadersEmpty
    /\ body = None
    /\ result = Pending
    /\ buf = <<>>
    /\ io_error = None
    /\ reads = 0
    /\ returned = <<>>
    /\ op = "idle"
    /\ arg = <<>>
    /\ ret = None
    /\ status_line = None
    /\ cursor = <<>>

Next ==
    \/ ReadU8Ok /\ UNCHANGED <<callVars, encoderVars>>
    \/ ReadU8Eof /\ UNCHANGED <<callVars, encoderVars>>
    \/ ReadU8Err /\ UNCHANGED <<callVars, encoderVars>>
    \/ ReadExactOk /\ UNCHANGED <<callVars, encoderVars>>
    \/ ReadExactEof /\ UNCHANGED <<callVars, encoderVars>>
    \/ ReadExactErr /\ UNCHANGED <<callVars, encoderVars>>

Spec == Init /\ [][Next]_vars

----------------------------------------------------------------------------
(* What the source holds, read off the bytes alone *)

Min(S) == CHOOSE x \in S : \A y \in S : x <= y

\* The index of the first CR immediately followed by LF, 0 when there is none
FirstCRLF(s) ==
    LET at == {i \in 1..(Len(s) - 1) : s[i] = CR /\ s[i + 1] = LF}
    IN  IF at = {} THEN 0 ELSE Min(at)

\* The CRLF-terminated lines of s, in order, without their terminators
RECURSIVE LinesOf(_)
LinesOf(s) ==
    LET i == FirstCRLF(s)
    IN  IF i = 0 THEN <<>>
        ELSE <<SubSeq(s, 1, i - 1)>> \o LinesOf(SubSeq(s, i + 2, Len(s)))

\* The index, among the lines of s, of the first empty line after the
\* request line; 0 when there is none
BlankLineIndex(s) ==
    LET ls == LinesOf(s)
        at == {k \in 2..Len(ls) : ls[k] = <<>>}
    IN  IF at = {} THEN 0 ELSE Min(at)

\* The lines between the request line and the blank line
HeaderLinesOf(s) == SubSeq(LinesOf(s), 2, BlankLineIndex(s) - 1)

RECURSIVE SumLen(_)
SumLen(ls) == IF ls = <<>> THEN 0 ELSE Len(Head(ls)) + 2 + SumLen(Tail(ls))

\* The number of bytes up to and including the blank line's CRLF
HeaderBlockEnd(s) == SumLen(SubSeq(LinesOf(s), 1, BlankLineIndex(s)))

ContainsSeparator(l) ==
    \E i \in 1..(Len(l) - 1) : l[i] = ":" /\ l[i + 1] = " "

\* The entries of hs whose field is Content-Length in any letter case
ContentLengthEntries(hs) ==
    {i \in 1..Len(hs) : EqIgnoreAsciiCase(hs[i].field, ContentLength)}

----------------------------------------------------------------------------
(* Claims on the decoder, checked under Spec *)

\* C1 (as stated): after a successful read_http_request the body is present
\* if and only if some received Content-Length header (any letter case) has
\* a value that parses as a non-negative integer, and a present body has
\* the length such a header declares.
C1_BodyIffSomeContentLengthParses ==
    IsOk(result) =>
        LET hs == result.v.headers
            b == result.v.body
            valid == {i \in ContentLengthEntries(hs) : IsSome(ParseUsize(hs[i].value))}
        IN  /\ IsSome(b) <=> valid # {}
            /\ IsSome(b) => \E i \in valid : Len(b.v) = ParseUsize(hs[i].value).v

\* C1 (amended): after a successful read_http_request the body is present
\* if and only if the first header whose field is Content-Length (any letter
\* case) has a value that parses as a usize; a present body has exactly that
\* many bytes, the bytes of the source that follow the blank line; a declared
\* length of 0 gives a present, empty body.
C1_BodyIffFirstContentLengthParses ==
    IsOk(result) =>
        LET hs == result.v.headers
            b == result.v.body
            cl == ContentLengthEntries(hs)
            declared == IF cl = {} THEN None ELSE ParseUsize(hs[Min(cl)].value)
            from == HeaderBlockEnd(source)
        IN  /\ IsSome(b) <=> IsSome(declared)
            /\ IsSome(b) =>
                 /\ Len(b.v) = declared.v
                 /\ b.v = SubSeq(source, from + 1, from + declared.v)

\* A decoded request with a two-byte body, a second header, and bytes of
\* the source left after the body
C1_Witness ==
    /\ IsOk(result)
    /\ IsSome(result.v.body)
    /\ Len(result.v.body.v) = 2
    /\ Len(result.v.headers) = 2
    /\ pos < Len(source)

\* The Io errors a failure of this model's reader can be reported as
IoFailures == {Err(IoError(k)) : k \in IoErrorKinds \cup {"UnexpectedEof"}}

\* C2: an I/O failure of the source during read_http_request (the end of
\* the source before a line's CRLF or before the declared body bytes, or a
\* transport failure) makes it return ParseRequestError::Io with the kind
\* of that failure, and Io is returned for no other reason; a returned body
\* is never shorter than declared; after the failure no read is issued.
C2_IoFailureIsReported ==
    /\ [](IsSome(io_error) =>
            /\ pc = "done"
            /\ result = Err(IoError(io_error.v.kind)))
    /\ []((IsErr(result) /\ result.e.kind = "Io") => IsSome(io_error))
    /\ [](IsOk(result) /\ IsSome(result.v.body) =>
            Len(result.v.body.v) = DeclaredLength(result.v.headers).v)
    /\ [][(pc \in Reading /\ pos = Len(source)) =>
            (result' \in IoFailures)]_vars
    /\ [][(pc = "body" /\ Len(source) - pos < Len(buf)) =>
            (result' \in IoFailures)]_vars
    /\ [][IsSome(io_error) => reads' = reads /\ pos' = pos /\ result' = result]_vars

\* The source ended before the declared body bytes were available
C2_Witness ==
    /\ pc = "done"
    /\ io_error = Some([kind |-> "UnexpectedEof"])
    /\ result = Err(IoError("UnexpectedEof"))
    /\ pos = Len(source)
    /\ BlankLineIndex(source) # 0
    /\ pos > HeaderBlockEnd(source)

\* The lines after the request line that the header loop parses: up to the
\* blank line, or every complete line when the source has no blank line
HeaderCandidatesOf(s) ==
    IF BlankLineIndex(s) # 0 THEN HeaderLinesOf(s)
    ELSE SubSeq(LinesOf(s), 2, Len(LinesOf(s)))

\* C5: when the request line parsed and no I/O failure occurred, the first
\* non-empty header line without the separator ": " ends the decode with
\* InvalidHeader carrying that line (as decoded to text), and no request is
\* returned; a returned request has the separator in every header line.
C5_InvalidHeaderAborts ==
    LET ls == LinesOf(source)
        hl == HeaderCandidatesOf(source)
        bad == {j \in 1..Len(hl) : ~ContainsSeparator(hl[j])}
    IN  /\ (/\ pc = "done"
            /\ io_error = None
            /\ Len(ls) >= 1
            /\ IsOk(RequestLineFromStr(FromUtf8Lossy(ls[1])))
            /\ bad # {})
           => result = Err(InvalidHeader(FromUtf8Lossy(hl[Min(bad)])))
        /\ IsOk(result) => bad = {}

\* A header line with an invalid byte and no separator, after a header
\* that parsed
C5_Witness ==
    /\ result = Err(InvalidHeader(<<"a", ReplacementChar>>))
    /\ Len(LinesOf(source)) >= 3
    /\ ContainsSeparator(LinesOf(source)[2])

\* C6: every Header of a successfully decoded request has a non-empty field
\* and a value without leading or trailing whitespace.
C6_FieldNonEmptyValueTrimmed ==
    IsOk(result) =>
        \A i \in 1..Len(result.v.headers) :
            LET h == result.v.headers[i]
            IN  /\ h.field # <<>>
                /\ h.value # <<>> =>
                     /\ ~IsWhitespace(h.value[1])
                     /\ ~IsWhitespace(h.value[Len(h.value)])

\* C7: after a successful read_http_request the Headers collection holds,
\* in the order received and with duplicates kept, the parse of each line
\* between the request line and the first empty line, one entry per line.
C7_HeadersAreTheParsedLines ==
    IsOk(result) =>
        LET hl == HeaderLinesOf(source)
            hs == result.v.headers
        IN  /\ Len(hs) = Len(hl)
            /\ \A i \in 1..Len(hl) : HeaderFromStr(FromUtf8Lossy(hl[i])) = Ok(hs[i])

\* A decoded request that holds the same header twice
C7_Witness ==
    /\ IsOk(result)
    /\ Len(result.v.headers) = 2
    /\ result.v.headers[1] = result.v.headers[2]
    /\ Len(HeaderLinesOf(source)) = 2

\* C9: the first failure of read_http_request is terminal: the error alone
\* is returned, the request line, headers and body read so far are dropped,
\* and no further byte is read from the source.
C9_FirstFailureIsTerminal ==
    /\ [](IsErr(result) =>
            /\ pc = "done"
            /\ DOMAIN result = {"tag", "e"}
            /\ request_line = None
            /\ headers = HeadersEmpty
            /\ body = None)
    /\ [][IsErr(result) => (pos' = pos /\ reads' = reads /\ result' = result)]_vars
    /\ [][(IsErr(result') /\ ~IsErr(result)) => (result = Pending /\ pos' <= Len(source))]_vars

\* A header failure after a header that parsed, with bytes left unread
C9_Witness ==
    /\ pc = "done"
    /\ IsErr(result)
    /\ result.e.kind = "InvalidHeader"
    /\ pos < Len(source)
    /\ ContainsSeparator(LinesOf(source)[2])

----------------------------------------------------------------------------
(* The parsers applied to texts: SpecParse *)

MaxLineLen == 5
MaxTokens == 4

HeaderAlphabet == {"a", ":", " ", "\t"}
HeaderTexts == SeqUpTo(HeaderAlphabet, MaxLineLen)

TokenInputs ==
    { <<"G","E","T">>, <<"g","e","t">>, <<"/">>, <<>>,
      <<"H","T","T","P","/","1",".","1">>, <<"H","T","T","P","/","2">> }

RECURSIVE Join(_, _)
Join(ts, sep) ==
    IF ts = <<>> THEN <<>>
    ELSE IF Len(ts) = 1 THEN ts[1]
    ELSE ts[1] \o sep \o Join(Tail(ts), sep)

\* Up to MaxTokens tokens with one space between neighbours
RequestLineTexts == {Join(ts, <<SP>>) : ts \in SeqUpTo(TokenInputs, MaxTokens)}

IdleDecoder ==
    /\ source = <<>>
    /\ pos = 0
    /\ pc = "idle"
    /\ line = <<>>
    /\ prev_byte_was_cr = FALSE
    /\ request_line = None
    /\ body = None
    /\ result = Pending
    /\ buf = <<>>
    /\ io_error = None
    /\ reads = 0
    /\ returned = <<>>

InitParse ==
    /\ IdleDecoder
    /\ headers = HeadersEmpty
    /\ op = "idle"
    /\ arg = <<>>
    /\ ret = None
    /\ status_line = None
    /\ cursor = <<>>

\* s.parse::<Header>()
HeaderFromStrCall ==
    \E s \in HeaderTexts :
        /\ op = "idle"
        /\ op' = "Header::from_str"
        /\ arg' = s
        /\ ret' = HeaderFromStr(s)

\* s.parse::<RequestLine>()
RequestLineFromStrCall ==
    \E s \in RequestLineTexts :
        /\ op = "idle"
        /\ op' = "RequestLine::from_str"
        /\ arg' = s
        /\ ret' = RequestLineFromStr(s)

\* The letters of s in lower case
Lowered(s) ==
    [i \in 1..Len(s) |->
        IF \E k \in 1..Len(UpperCase) : UpperCase[k] = s[i]
        THEN LowerCase[CHOOSE k \in 1..Len(UpperCase) : UpperCase[k] = s[i]]
        ELSE s[i]]

\* A vocabulary string and its near misses: lower case, first letter only
\* in upper case, a space before or after, a character more or less
Variants(v) ==
    { v, Lowered(v), <<v[1]>> \o Lowered(Tail(v)), v \o <<SP>>, <<SP>> \o v,
      v \o <<"S">>, SubSeq(v, 1, Len(v) - 1), Tail(v) }

WordInputs ==
    UNION {Variants(MethodAsStr(m)) : m \in Methods}
        \cup UNION {Variants(HttpVersionAsStr(v)) : v \in HttpVersions}
        \cup { <<>>, <<"H","T","T","P","/","2">>, <<"H","T","T","P","/","1",".","1","1">> }

\* method.as_str()
MethodAsStrCall ==
    \E m \in Methods :
        /\ op = "idle"
        /\ op' = "Method::as_str"
        /\ arg' = m
        /\ ret' = MethodAsStr(m)

\* s.parse::<Method>(), on a word or on what as_str just returned
MethodFromStrCall ==
    /\ op \in {"idle", "Method::as_str"}
    /\ \E s \in (IF op = "idle" THEN WordInputs ELSE {ret}) :
         /\ arg' = s
         /\ ret' = MethodFromStr(s)
    /\ op' = "Method::from_str"

\* version.as_str()
HttpVersionAsStrCall ==
    \E v \in HttpVersions :
        /\ op = "idle"
        /\ op' = "HttpVersion::as_str"
        /\ arg' = v
        /\ ret' = HttpVersionAsStr(v)

\* s.parse::<HttpVersion>(), on a word or on what as_str just returned
HttpVersionFromStrCall ==
    /\ op \in {"idle", "HttpVersion::as_str"}
    /\ \E s \in (IF op = "idle" THEN WordInputs ELSE {ret}) :
         /\ arg' = s
         /\ ret' = HttpVersionFromStr(s)
    /\ op' = "HttpVersion::from_str"

NextParse ==
    \/ HeaderFromStrCall /\ UNCHANGED <<decoderVars, encoderVars>>
    \/ RequestLineFromStrCall /\ UNCHANGED <<decoderVars, encoderVars>>
    \/ MethodAsStrCall /\ UNCHANGED <<decoderVars, encoderVars>>
    \/ MethodFromStrCall /\ UNCHANGED <<decoderVars, encoderVars>>
    \/ HttpVersionAsStrCall /\ UNCHANGED <<decoderVars, encoderVars>>
    \/ HttpVersionFromStrCall /\ UNCHANGED <<decoderVars, encoderVars>>

SpecParse == InitParse /\ [][NextParse]_vars

----------------------------------------------------------------------------
(* The Headers collection: SpecHeaders *)

MaxEntries == 3

FieldInputs == { <<"A">>, <<"a">>, <<"b">> }
ValueInputs == { <<"1">>, <<"2">> }
QueryInputs == FieldInputs \cup { <<"B">>, <<"a","b">> }

InitHeaders == InitParse

\* headers.push(header): Vec::push through DerefMut
HeadersPush ==
    /\ op = "idle"
    /\ Len(headers) < MaxEntries
    /\ \E f \in FieldInputs, v \in ValueInputs :
         headers' = Append(headers, [field |-> f, value |-> v])
    /\ UNCHANGED <<op, arg, ret>>

\* headers.get(field)
HeadersGetCall ==
    /\ \E f \in QueryInputs :
         /\ arg' = f
         /\ ret' = HeadersGet(headers, f)
    /\ op' = "Headers::get"
    /\ UNCHANGED headers

NextHeaders ==
    \/ HeadersPush /\ UNCHANGED <<source, pos, pc, line, prev_byte_was_cr,
                                  request_line, body, result, buf, io_error,
                                  reads, returned, encoderVars>>
    \/ HeadersGetCall /\ UNCHANGED <<source, pos, pc, line, prev_byte_was_cr,
                                     request_line, body, result, buf, io_error,
                                     reads, returned, encoderVars>>

SpecHeaders == InitHeaders /\ [][NextHeaders]_vars

----------------------------------------------------------------------------
(* Claims on the parsers, checked under SpecParse *)

SpacesOf(s) == {i \in 1..Len(s) : s[i] = SP}

\* The k-th smallest element of a set of numbers
RECURSIVE Nth(_, _)
Nth(S, k) == IF k = 1 THEN Min(S) ELSE Nth(S \ {Min(S)}, k - 1)

MethodVocabulary == {MethodAsStr(m) : m \in Methods}
VersionVocabulary == {HttpVersionAsStr(v) : v \in HttpVersions}

\* C3: a request line with fewer than three space-separated tokens, or
\* whose method or version token is not in its vocabulary, fails with
\* RequestLine carrying the line unchanged; a line of exactly three valid
\* tokens yields the method, the uri token as it is, and the version.
C3_RequestLineParse ==
    op = "RequestLine::from_str" =>
        LET sp == SpacesOf(arg)
            n == Cardinality(sp)
            t1 == SubSeq(arg, 1, Nth(sp, 1) - 1)
            t2 == SubSeq(arg, Nth(sp, 1) + 1, Nth(sp, 2) - 1)
            t3 == SubSeq(arg, Nth(sp, 2) + 1, IF n = 2 THEN Len(arg) ELSE Nth(sp, 3) - 1)
        IN  /\ n < 2 => ret = Err(RequestLineError(arg))
            /\ (n >= 2 /\ (t1 \notin MethodVocabulary \/ t3 \notin VersionVocabulary))
                 => ret = Err(RequestLineError(arg))
            /\ (n = 2 /\ t1 \in MethodVocabulary /\ t3 \in VersionVocabulary)
                 => /\ IsOk(ret)
                    /\ MethodAsStr(ret.v.method) = t1
                    /\ ret.v.uri = t2
                    /\ HttpVersionAsStr(ret.v.version) = t3

\* Three tokens with a method outside the vocabulary (wrong letter case)
C3_Witness ==
    /\ op = "RequestLine::from_str"
    /\ arg = <<"g","e","t"," ","/"," ","H","T","T","P","/","1",".","1">>
    /\ ret = Err(RequestLineError(arg))

\* The index of the first ": " of a line that contains one
FirstSeparator(l) == Min({i \in 1..(Len(l) - 1) : l[i] = ":" /\ l[i + 1] = " "})

\* C4: for a line that contains ": ", Header parsing yields the text before
\* the first ": " as the field and the whole remainder after it, trimmed,
\* as the value, also when the remainder contains further ": ".
C4_HeaderSplitsOnFirstSeparatorOnly ==
    (op = "Header::from_str" /\ ContainsSeparator(arg)) =>
        LET i == FirstSeparator(arg)
        IN  ret = Ok([field |-> SubSeq(arg, 1, i - 1),
                      value |-> Trim(SubSeq(arg, i + 2, Len(arg)))])

----------------------------------------------------------------------------
(* Claims on the Headers collection, checked under SpecHeaders *)

\* Equality of two texts up to the case of ASCII letters
SameIgnoringCase(a, b) ==
    /\ Len(a) = Len(b)
    /\ \A i \in 1..Len(a) :
         \/ a[i] = b[i]
         \/ \E k \in 1..Len(UpperCase) : {a[i], b[i]} = {UpperCase[k], LowerCase[k]}

\* C8: Headers::get(field) returns the value of the first entry, in
\* insertion order, whose field equals the queried field ignoring ASCII
\* case, returns None exactly when no entry matches, and leaves the
\* collection as it was.
C8_GetReturnsFirstMatch ==
    /\ [](op = "Headers::get" =>
            LET m == {i \in 1..Len(headers) : SameIgnoringCase(headers[i].field, arg)}
            IN  /\ ret = None <=> m = {}
                /\ m # {} => ret = Some(headers[Min(m)].value))
    /\ [][op' = "Headers::get" => headers' = headers]_vars

\* Two entries match the query in another letter case, with different
\* values, after an entry that does not match
C8_Witness ==
    /\ op = "Headers::get"
    /\ Len(headers) = 3
    /\ arg = <<"a">>
    /\ headers[1].field = <<"b">>
    /\ headers[2] = [field |-> <<"A">>, value |-> <<"2">>]
    /\ headers[3] = [field |-> <<"a">>, value |-> <<"1">>]
    /\ ret = Some(<<"2">>)

----------------------------------------------------------------------------
(* StatusCode *)

\* The associated constants of StatusCode
StatusCodes ==
    [ CONTINUE |-> 100,
      SWITCHING_PROTOCOLS |-> 101,
      PROCESSING |-> 102,
      EARLY_HINTS |-> 103,
      OK |-> 200,
      CREATED |-> 201,
      ACCEPTED |-> 202,
      NON_AUTHORITATIVE_INFORMATION |-> 203,
      NO_CONTENT |-> 204,
      RESET_CONTENT |-> 205,
      PARTIAL_CONTENT |-> 206,
      MULTI_STATUS |-> 207,
      ALREADY_REPORTED |-> 208,
      IM_USED |-> 226,
      MULTIPLE_CHOICES |-> 300,
      MOVED_PERMANENTLY |-> 301,
      FOUND |-> 302,
      SEE_OTHER |-> 303,
      NOT_MODIFIED |-> 304,
      USE_PROXY |-> 305,
      TEMPORARY_REDIRECT |-> 307,
      PERMANENT_REDIRECT |-> 308,
      BAD_REQUEST |-> 400,
      UNAUTHORIZED |-> 401,
      PAYMENT_REQUIRED |-> 402,
      FORBIDDEN |-> 403,
      NOT_FOUND |-> 404,
      METHOD_NOT_ALLOWED |-> 405,
      NOT_ACCEPTABLE |-> 406,
      PROXY_AUTHENTICATION_REQUIRED |-> 407,
      REQUEST_TIMEOUT |-> 408,
      CONFLICT |-> 409,
      GONE |-> 410,
      LENGTH_REQUIRED |-> 411,
      PRECONDITION_FAILED |-> 412,
      PAYLOAD_TOO_LARGE |-> 413,
      URI_TOO_LONG |-> 414,
      UNSUPPORTED_MEDIA_TYPE |-> 415,
      RANGE_NOT_SATISFIABLE |-> 416,
      EXPECTATION_FAILED |-> 417,
      MISDIRECTED_REQUEST |-> 421,
      UNPROCESSABLE_ENTITY |-> 422,
      Locked |-> 423,
      FAILED_DEPENDENCY |-> 424,
      UPGRADE_REQUIRED |-> 426,
      PRECONDITION_REQUIRED |-> 428,
      TOO_MANY_REQUESTS |-> 429,
      REQUEST_HEADER_FIELDS_TOO_LARGE |-> 431,
      UNAVAILABLE_FOR_LEGAL_REASONS |-> 451,
      INTERNAL_SERVER_ERROR |-> 500,
      NOT_IMPLEMENTED |-> 501,
      BAD_GATEWAY |-> 502,
      ServiceUnavailable |-> 503,
      GATEWAY_TIMEOUT |-> 504,
      HTTP_VERSION_NOT_SUPPORTED |-> 505,
      VARIANT_ALSO_NEGOTIATES |-> 506,
      INSUFFICIENT_STORAGE |-> 507,
      LOOP_DETECTED |-> 508,
      NOT_EXTENDED |-> 510,
      NETWORK_AUTHENTICATION_REQUIRED |-> 511 ]

\* StatusCode::default_reason_phrase; a phrase is one element of a text,
\* standing for its characters
DefaultReasonPhrase(code) ==
    CASE code = StatusCodes.CONTINUE -> "Continue"
      [] code = StatusCodes.SWITCHING_PROTOCOLS -> "Switching Protocols"
      [] code = StatusCodes.PROCESSING -> "Processing"
      [] code = StatusCodes.EARLY_HINTS -> "Early Hints"
      [] code = StatusCodes.OK -> "OK"
      [] code = StatusCodes.CREATED -> "Created"
      [] code = StatusCodes.ACCEPTED -> "Accepted"
      [] code = StatusCodes.NON_AUTHORITATIVE_INFORMATION -> "Non-Authoritative Information"
      [] code = StatusCodes.NO_CONTENT -> "No Content"
      [] code = StatusCodes.RESET_CONTENT -> "Reset Content"
      [] code = StatusCodes.PARTIAL_CONTENT -> "Partial Content"
      [] code = StatusCodes.MULTI_STATUS -> "Multi-Status"
      [] code = StatusCodes.ALREADY_REPORTED -> "Already Reported"
      [] code = StatusCodes.IM_USED -> "IM Used"
      [] code = StatusCodes.MULTIPLE_CHOICES -> "Multiple Choices"
      [] code = StatusCodes.MOVED_PERMANENTLY -> "Moved Permanently"
      [] code = StatusCodes.FOUND -> "Found"
      [] code = StatusCodes.SEE_OTHER -> "See Other"
      [] code = StatusCodes.NOT_MODIFIED -> "Not Modified"
      [] code = StatusCodes.USE_PROXY -> "Use Proxy"
      [] code = StatusCodes.TEMPORARY_REDIRECT -> "Temporary Redirect"
      [] code = StatusCodes.PERMANENT_REDIRECT -> "Permanent Redirect"
      [] code = StatusCodes.BAD_REQUEST -> "Bad Request"
      [] code = StatusCodes.UNAUTHORIZED -> "Unauthorized"
      [] code = StatusCodes.PAYMENT_REQUIRED -> "Payment Required"
      [] code = StatusCodes.FORBIDDEN -> "Forbidden"
      [] code = StatusCodes.NOT_FOUND -> "Not Found"
      [] code = StatusCodes.METHOD_NOT_ALLOWED -> "Method Not Allowed"
      [] code = StatusCodes.NOT_ACCEPTABLE -> "Not Acceptable"
      [] code = StatusCodes.PROXY_AUTHENTICATION_REQUIRED -> "Proxy Authentication Required"
      [] code = StatusCodes.REQUEST_TIMEOUT -> "Request Timeout"
      [] code = StatusCodes.CONFLICT -> "Conflict"
      [] code = StatusCodes.GONE -> "Gone"
      [] code = StatusCodes.LENGTH_REQUIRED -> "Length Required"
      [] code = StatusCodes.PRECONDITION_FAILED -> "Precondition Failed"
      [] code = StatusCodes.PAYLOAD_TOO_LARGE -> "Payload Too Large"
      [] code = StatusCodes.URI_TOO_LONG -> "URI Too Long"
      [] code = StatusCodes.UNSUPPORTED_MEDIA_TYPE -> "Unsupported Media Type"
      [] code = StatusCodes.RANGE_NOT_SATISFIABLE -> "Range Not Satisfiable"
      [] code = StatusCodes.EXPECTATION_FAILED -> "Expectation Failed"
      [] code = StatusCodes.MISDIRECTED_REQUEST -> "Misdirected Request"
      [] code = StatusCodes.UNPROCESSABLE_ENTITY -> "Unprocessable Entity"
      [] code = StatusCodes.Locked -> "Locked"
      [] code = StatusCodes.FAILED_DEPENDENCY -> "Failed Dependency"
      [] code = StatusCodes.UPGRADE_REQUIRED -> "Upgrade Required"
      [] code = StatusCodes.PRECONDITION_REQUIRED -> "Precondition Required"
      [] code = StatusCodes.TOO_MANY_REQUESTS -> "Too Many Requests"
      [] code = StatusCodes.REQUEST_HEADER_FIELDS_TOO_LARGE -> "Request Header Fields Too Large"
      [] code = StatusCodes.UNAVAILABLE_FOR_LEGAL_REASONS -> "Unavailable For Legal Reasons"
      [] code = StatusCodes.INTERNAL_SERVER_ERROR -> "Internal Server Error"
      [] code = StatusCodes.NOT_IMPLEMENTED -> "Not Implemented"
      [] code = StatusCodes.BAD_GATEWAY -> "Bad Gateway"
      [] code = StatusCodes.ServiceUnavailable -> "Service Unavailable"
      [] code = StatusCodes.GATEWAY_TIMEOUT -> "Gateway Timeout"
      [] code = StatusCodes.HTTP_VERSION_NOT_SUPPORTED -> "HTTP Version Not Supported"
      [] code = StatusCodes.VARIANT_ALSO_NEGOTIATES -> "Variant Also Negotiates"
      [] code = StatusCodes.INSUFFICIENT_STORAGE -> "Insufficient Storage"
      [] code = StatusCodes.LOOP_DETECTED -> "Loop Detected"
      [] code = StatusCodes.NOT_EXTENDED -> "Not Extended"
      [] code = StatusCodes.NETWORK_AUTHENTICATION_REQUIRED -> "Network Authentication Required"
      [] OTHER -> "Unknown"

\* Display of an unsigned integer: its decimal digits, no leading zero
RECURSIVE ToDecimal(_)
ToDecimal(n) ==
    IF n < 10 THEN <<Digits[n + 1]>>
    ELSE ToDecimal(n \div 10) \o <<Digits[(n % 10) + 1]>>

----------------------------------------------------------------------------
(* The response encoder *)

\* StatusLine::new
StatusLineNew(version, status) == [version |-> version, status |-> status]

\* StatusLine::to_http_message that ends the line as writeln! does
StatusLineToHttpMessageLn(sl) ==
    HttpVersionAsStr(sl.version) \o <<SP>> \o ToDecimal(sl.status) \o <<SP>>
        \o <<DefaultReasonPhrase(sl.status)>> \o <<LF>>

\* StatusLine::to_http_message
StatusLineToHttpMessage(sl) ==
    HttpVersionAsStr(sl.version) \o <<SP>> \o ToDecimal(sl.status) \o <<SP>>
        \o <<DefaultReasonPhrase(sl.status)>> \o CRLF

\* Header::to_http_message: "<field>: <value>" and CRLF
HeaderToHttpMessage(h) == h.field \o <<":", SP>> \o h.value \o CRLF

\* Headers::to_http_message: every header's message, in collection order
HeadersToHttpMessage(hs) ==
    Flatten([i \in 1..Len(hs) |-> HeaderToHttpMessage(hs[i])])

\* Headers::set: the first entry with that field (any letter case) gets the
\* value; without one, a new entry is appended
HeadersSet(hs, field, value) ==
    LET hits == {i \in 1..Len(hs) : EqIgnoreAsciiCase(hs[i].field, field)}
    IN  IF hits = {} THEN Append(hs, [field |-> field, value |-> value])
        ELSE [hs EXCEPT ![CHOOSE i \in hits : \A j \in hits : i <= j].value = value]

\* RawResponse::new that leaves the caller's headers alone
RawResponseNewKeepHeaders(sl, hs, b) ==
    [status_line |-> sl, headers |-> hs, body |-> b]

\* RawResponse::new that pushes Content-Length instead of setting it
RawResponseNewPush(sl, hs, b) ==
    [status_line |-> sl,
     headers |-> IF IsSome(b)
                 THEN Append(hs, [field |-> ContentLength,
                                  value |-> ToDecimal(Len(b.v))])
                 ELSE hs,
     body |-> b]

\* RawResponse::new that sets Content-Length whether or not there is a body
RawResponseNewAlwaysSet(sl, hs, b) ==
    [status_line |-> sl,
     headers |-> HeadersSet(hs, ContentLength,
                            ToDecimal(IF IsSome(b) THEN Len(b.v) ELSE 0)),
     body |-> b]

\* RawResponse::new
RawResponseNew(sl, hs, b) ==
    [status_line |-> sl,
     headers |-> IF IsSome(b) THEN HeadersSet(hs, ContentLength, ToDecimal(Len(b.v)))
                 ELSE hs,
     body |-> b]

\* write!(cursor, ..) and Write::write_all on the Cursor: the bytes are
\* appended at the cursor's position, the end of the buffer
CursorWrite(buffer, bytes) == buffer \o bytes

\* Mutant: the blank line that ends the header block is not written
IntoVecNoBlankLine(response) ==
    LET c1 == CursorWrite(<<>>, StatusLineToHttpMessage(response.status_line))
        c2 == CursorWrite(c1, HeadersToHttpMessage(response.headers))
    IN  IF IsSome(response.body) THEN CursorWrite(c2, response.body.v) ELSE c2

\* RawResponse::into_vec
IntoVec(response) ==
    LET c1 == CursorWrite(<<>>, StatusLineToHttpMessage(response.status_line))
        c2 == CursorWrite(c1, HeadersToHttpMessage(response.headers))
        c3 == CursorWrite(c2, CRLF)
    IN  IF IsSome(response.body) THEN CursorWrite(c3, response.body.v) ELSE c3

MaxResponseHeaders == 2
MaxBodyLen == 2

StatusInputs == {200, 404, 599}

ResponseHeaderInputs ==
    { [field |-> <<"a">>, value |-> <<"1">>],
      [field |-> ContentLength, value |-> <<"9">>],
      [field |-> <<"c","o","n","t","e","n","t","-","l","e","n","g","t","h">>,
       value |-> <<"x">>] }

BodyInputs == {None} \cup {Some(TailBytes(n)) : n \in 0..MaxBodyLen}

InitResponse == InitParse

\* RawResponse::new(StatusLine::new(version, status), headers, body); arg
\* keeps what the caller passed
NewResponse ==
    /\ pc = "idle"
    /\ \E v \in HttpVersions, code \in StatusInputs,
          hs \in SeqUpTo(ResponseHeaderInputs, MaxResponseHeaders),
          b \in BodyInputs :
         LET r == RawResponseNew(StatusLineNew(v, code), hs, b)
         IN  /\ status_line' = Some(r.status_line)
             /\ headers' = r.headers
             /\ body' = r.body
             /\ arg' = [headers |-> hs, body |-> b]
    /\ pc' = "built"
    /\ op' = "RawResponse::new"
    /\ UNCHANGED <<source, pos, line, prev_byte_was_cr, request_line, result,
                   buf, io_error, reads, returned, ret, cursor>>

\* response.into_vec()
IntoVecCall ==
    /\ pc = "built"
    /\ cursor' = IntoVec([status_line |-> status_line.v, headers |-> headers,
                          body |-> body])
    /\ pc' = "encoded"
    /\ op' = "RawResponse::into_vec"
    /\ UNCHANGED <<source, pos, line, prev_byte_was_cr, request_line, headers,
                   body, result, buf, io_error, reads, returned, arg, ret,
                   status_line>>

MaxStatusCode == 600
U16Max == 65535

\* Every code up to MaxStatusCode, and codes of four and five digits up to
\* the largest u16
StatusCodeInputs == (0..MaxStatusCode) \cup {1000, 9999, 10000, U16Max}

\* StatusLine::new(version, status).to_http_message()
StatusLineToHttpMessageCall ==
    /\ pc = "idle"
    /\ \E v \in HttpVersions, code \in StatusCodeInputs :
         /\ status_line' = Some(StatusLineNew(v, code))
         /\ arg' = [version |-> v, status |-> code]
         /\ ret' = StatusLineToHttpMessage(StatusLineNew(v, code))
    /\ pc' = "status_line"
    /\ op' = "StatusLine::to_http_message"
    /\ UNCHANGED <<source, pos, line, prev_byte_was_cr, request_line, headers,
                   body, result, buf, io_error, reads, returned, cursor>>

NextResponse ==
    \/ NewResponse
    \/ IntoVecCall
    \/ StatusLineToHttpMessageCall

SpecResponse == InitResponse /\ [][NextResponse]_vars

----------------------------------------------------------------------------
(* Claims on the encoder, checked under SpecResponse *)

\* The line of the i-th header as the wire format has it
WireHeaderLine(h) == h.field \o <<":", SP>> \o h.value \o <<CR, LF>>

RECURSIVE WireHeaderEnd(_, _)
\* The number of bytes the first k header lines take
WireHeaderEnd(hs, k) ==
    IF k = 0 THEN 0 ELSE WireHeaderEnd(hs, k - 1) + Len(WireHeaderLine(hs[k]))

\* C10: the bytes of RawResponse::into_vec are, in this order and with no
\* other bytes: the status line ending in CRLF, each header as
\* "<field>: <value>" and CRLF in collection order, one CRLF, and the body
\* bytes as they are when a body is present.
C10_IntoVecLayout ==
    pc = "encoded" =>
        LET sl == StatusLineToHttpMessage(status_line.v)
            n == Len(headers)
            h0 == Len(sl)
            h1 == h0 + WireHeaderEnd(headers, n)
            b == IF IsSome(body) THEN body.v ELSE <<>>
        IN  /\ Len(cursor) = h1 + 2 + Len(b)
            /\ SubSeq(sl, Len(sl) - 1, Len(sl)) = <<CR, LF>>
            /\ SubSeq(cursor, 1, h0) = sl
            /\ \A k \in 1..n :
                 SubSeq(cursor, h0 + WireHeaderEnd(headers, k - 1) + 1,
                        h0 + WireHeaderEnd(headers, k)) = WireHeaderLine(headers[k])
            /\ SubSeq(cursor, h1 + 1, h1 + 2) = <<CR, LF>>
            /\ SubSeq(cursor, h1 + 3, Len(cursor)) = b

\* An encoded response with two headers and a two-byte body
C10_Witness ==
    /\ pc = "encoded"
    /\ Len(headers) = 2
    /\ body = Some(<<"h", "i">>)
    /\ Len(cursor) > 2

----------------------------------------------------------------------------
(* Claims on Content-Length in responses, checked under SpecResponse *)

\* d is the decimal numeral of n: digits only, no leading zero
IsDecimalOf(d, n) ==
    /\ Len(d) >= 1
    /\ \A i \in 1..Len(d) : \E k \in 1..Len(Digits) : d[i] = Digits[k]
    /\ Len(d) > 1 => d[1] # "0"
    /\ DecimalValue(d) = n

\* The field and the value of a serialized header line "<field>: <value>"
WireField(l) == SubSeq(l, 1, FirstSeparator(l) - 1)
WireValue(l) == SubSeq(l, FirstSeparator(l) + 2, Len(l))

\* The header lines of the serialized response that name Content-Length
WireContentLengths(bytes) ==
    LET hl == HeaderLinesOf(bytes)
    IN  {k \in 1..Len(hl) :
            ContainsSeparator(hl[k]) /\ SameIgnoringCase(WireField(hl[k]), ContentLength)}

\* C11: a RawResponse built with a present body, whatever headers the
\* caller supplied (a stale Content-Length in any letter case included),
\* serializes with a Content-Length header whose value is the decimal byte
\* length of the body, and the first header matching Content-Length
\* ignoring case, both in the collection and on the wire, carries that length.
C11_ContentLengthIsBodyLength ==
    (pc \in {"built", "encoded"} /\ IsSome(arg.body)) =>
        LET n == Len(arg.body.v)
            cl == {i \in 1..Len(headers) :
                      SameIgnoringCase(headers[i].field, ContentLength)}
        IN  /\ body = arg.body
            /\ cl # {}
            /\ IsDecimalOf(headers[Min(cl)].value, n)
            /\ pc = "encoded" =>
                  LET hl == HeaderLinesOf(cursor)
                      w == WireContentLengths(cursor)
                  IN  /\ w # {}
                      /\ IsDecimalOf(WireValue(hl[Min(w)]), n)

\* The caller passed a stale lower-case content-length and then a stale
\* Content-Length, with a two-byte body; the response is serialized
C11_Witness ==
    /\ pc = "encoded"
    /\ arg.body = Some(<<"h", "i">>)
    /\ Len(arg.headers) = 2
    /\ arg.headers[1].value = <<"x">>
    /\ arg.headers[2].value = <<"9">>
    /\ WireContentLengths(cursor) = {1, 2}

\* C12: the set of Content-Length in RawResponse::new is an upsert: when the
\* caller's headers hold an entry with that field (ignoring case), one such
\* entry has its value overwritten in place and the number and the order of
\* the entries are unchanged; otherwise exactly one entry is appended at
\* the end; in both cases every other entry keeps its field, value and
\* position.
C12_SetIsUpsert ==
    (pc \in {"built", "encoded"} /\ IsSome(arg.body)) =>
        LET old == arg.headers
            n == Len(arg.body.v)
            m == {i \in 1..Len(old) : SameIgnoringCase(old[i].field, ContentLength)}
        IN  IF m # {}
            THEN /\ Len(headers) = Len(old)
                 /\ \E k \in m :
                      /\ SameIgnoringCase(headers[k].field, ContentLength)
                      /\ IsDecimalOf(headers[k].value, n)
                      /\ \A i \in 1..Len(old) : i # k => headers[i] = old[i]
            ELSE /\ Len(headers) = Len(old) + 1
                 /\ SubSeq(headers, 1, Len(old)) = old
                 /\ SameIgnoringCase(headers[Len(headers)].field, ContentLength)
                 /\ IsDecimalOf(headers[Len(headers)].value, n)

\* The caller passed an unrelated header and then a stale content-length:
\* the second entry was overwritten, the first is as it was
C12_Witness ==
    /\ pc = "built"
    /\ IsSome(arg.body)
    /\ Len(arg.headers) = 2
    /\ arg.headers[1].field = <<"a">>
    /\ arg.headers[2].value = <<"x">>
    /\ headers[1] = arg.headers[1]
    /\ headers[2].field = arg.headers[2].field
    /\ headers[2].value # <<"x">>

\* C20: a RawResponse built with no body keeps the caller's headers as they
\* are (no Content-Length added, overwritten or removed), and its serialized
\* output is the status line, the header block and the blank CRLF, with no
\* byte after it.
C20_NoBodyLeavesHeadersAlone ==
    (pc \in {"built", "encoded"} /\ arg.body = None) =>
        /\ headers = arg.headers
        /\ body = None
        /\ pc = "encoded" =>
              LET head == StatusLineToHttpMessage(status_line.v)
                              \o HeadersToHttpMessage(arg.headers)
              IN  /\ Len(cursor) = Len(head) + 2
                  /\ SubSeq(cursor, 1, Len(head)) = head
                  /\ SubSeq(cursor, Len(cursor) - 1, Len(cursor)) = <<CR, LF>>

\* A serialized response without a body whose caller passed a stale
\* Content-Length and no other header
C20_Witness ==
    /\ pc = "encoded"
    /\ arg.body = None
    /\ Len(arg.headers) = 1
    /\ arg.headers[1].value = <<"9">>
    /\ WireContentLengths(cursor) = {1}

----------------------------------------------------------------------------
(* Claims on Method and HttpVersion, checked under SpecParse *)

\* C13: for every Method and every HttpVersion v, parsing as_str(v) returns
\* v, and as_str gives different variants different strings.
C13_ParseInvertsAsStr ==
    /\ [][(op = "Method::as_str" /\ op' = "Method::from_str") => ret' = Ok(arg)]_vars
    /\ [][(op = "HttpVersion::as_str" /\ op' = "HttpVersion::from_str")
            => ret' = Ok(arg)]_vars
    /\ [](op = "Method::as_str" =>
            \A m \in Methods : MethodAsStr(m) = ret => m = arg)
    /\ [](op = "HttpVersion::as_str" =>
            \A v \in HttpVersions : HttpVersionAsStr(v) = ret => v = arg)

\* PUT went through as_str and back through the parser
C13_Witness ==
    /\ op = "Method::from_str"
    /\ arg = <<"P","U","T">>
    /\ ret = Ok("PUT")

\* C14: Method parsing and HttpVersion parsing accept exactly their
\* vocabulary strings, letter case included; every other token (wrong
\* case, extra or missing characters, empty) fails with UnknownMethod,
\* respectively UnknownHttpVersion, carrying the token as it was given.
C14_OnlyExactVocabularyParses ==
    /\ op = "Method::from_str" =>
          IF arg \in MethodVocabulary
          THEN IsOk(ret) /\ ret.v \in Methods /\ MethodAsStr(ret.v) = arg
          ELSE ret = Err([kind |-> "UnknownMethod", payload |-> arg])
    /\ op = "HttpVersion::from_str" =>
          IF arg \in VersionVocabulary
          THEN IsOk(ret) /\ ret.v \in HttpVersions /\ HttpVersionAsStr(ret.v) = arg
          ELSE ret = Err([kind |-> "UnknownHttpVersion", payload |-> arg])

\* HttpVersion parsing refused "http/1.1" and handed the token back
C14_Witness ==
    /\ op = "HttpVersion::from_str"
    /\ arg = <<"h","t","t","p","/","1",".","1">>
    /\ IsErr(ret)
    /\ ret.e.payload = arg

----------------------------------------------------------------------------
(* Claims on the status line, checked under SpecResponse *)

\* The code and the phrase the source documents on each StatusCode constant
DocumentedStatus ==
    { <<100, "Continue">>,
      <<101, "Switching Protocols">>,
      <<102, "Processing">>,
      <<103, "Early Hints">>,
      <<200, "OK">>,
      <<201, "Created">>,
      <<202, "Accepted">>,
      <<203, "Non-Authoritative Information">>,
      <<204, "No Content">>,
      <<205, "Reset Content">>,
      <<206, "Partial Content">>,
      <<207, "Multi-Status">>,
      <<208, "Already Reported">>,
      <<226, "IM Used">>,
      <<300, "Multiple Choices">>,
      <<301, "Moved Permanently">>,
      <<302, "Found">>,
      <<303, "See Other">>,
      <<304, "Not Modified">>,
      <<305, "Use Proxy">>,
      <<307, "Temporary Redirect">>,
      <<308, "Permanent Redirect">>,
      <<400, "Bad Request">>,
      <<401, "Unauthorized">>,
      <<402, "Payment Required">>,
      <<403, "Forbidden">>,
      <<404, "Not Found">>,
      <<405, "Method Not Allowed">>,
      <<406, "Not Acceptable">>,
      <<407, "Proxy Authentication Required">>,
      <<408, "Request Timeout">>,
      <<409, "Conflict">>,
      <<410, "Gone">>,
      <<411, "Length Required">>,
      <<412, "Precondition Failed">>,
      <<413, "Payload Too Large">>,
      <<414, "URI Too Long">>,
      <<415, "Unsupported Media Type">>,
      <<416, "Range Not Satisfiable">>,
      <<417, "Expectation Failed">>,
      <<421, "Misdirected Request">>,
      <<422, "Unprocessable Entity">>,
      <<423, "Locked">>,
      <<424, "Failed Dependency">>,
      <<426, "Upgrade Required">>,
      <<428, "Precondition Required">>,
      <<429, "Too Many Requests">>,
      <<431, "Request Header Fields Too Large">>,
      <<451, "Unavailable For Legal Reasons">>,
      <<500, "Internal Server Error">>,
      <<501, "Not Implemented">>,
      <<502, "Bad Gateway">>,
      <<503, "Service Unavailable">>,
      <<504, "Gateway Timeout">>,
      <<505, "HTTP Version Not Supported">>,
      <<506, "Variant Also Negotiates">>,
      <<507, "Insufficient Storage">>,
      <<508, "Loop Detected">>,
      <<510, "Not Extended">>,
      <<511, "Network Authentication Required">> }

\* C15: for every HttpVersion and every status code,
\* StatusLine::to_http_message is "<version> <decimal code> <reason>" and
\* CRLF, where the reason is the documented phrase of the code when there
\* is a constant for it and "Unknown" for every other code.
C15_StatusLineMessage ==
    op = "StatusLine::to_http_message" =>
        LET version == HttpVersionAsStr(arg.version)
            known == {d \in DocumentedStatus : d[1] = arg.status}
            reason == IF known = {} THEN "Unknown" ELSE (CHOOSE d \in known : TRUE)[2]
            n == Len(ret)
            v == Len(version)
        IN  /\ Cardinality(known) <= 1
            /\ n >= v + 6
            /\ SubSeq(ret, 1, v) = version
            /\ ret[v + 1] = SP
            /\ IsDecimalOf(SubSeq(ret, v + 2, n - 4), arg.status)
            /\ ret[n - 3] = SP
            /\ ret[n - 2] = reason
            /\ SubSeq(ret, n - 1, n) = <<CR, LF>>

\* The status line of a code without a constant, between two codes that
\* have one
C15_Witness ==
    /\ op = "StatusLine::to_http_message"
    /\ arg.status = 419
    /\ arg.version = "Http1_0"
    /\ ret = <<"H","T","T","P","/","1",".","0"," ","4","1","9"," ","Unknown","\r","\n">>

----------------------------------------------------------------------------
(* Claims on the line reader and on what the decoder consumes, under Spec *)

\* C16: each line read_next_line returns is the bytes before the first
\* CR LF of the unread source, and the read position is then just behind
\* that CR LF; a LF without a CR before it and a CR without a LF after it
\* stay in the line, and a returned line never contains CR LF.
C16_LineEndsAtFirstCRLF ==
    /\ [](/\ Len(returned) <= Len(LinesOf(source))
          /\ returned = SubSeq(LinesOf(source), 1, Len(returned))
          /\ \A k \in 1..Len(returned) : FirstCRLF(returned[k]) = 0)
    /\ [][returned' # returned =>
            /\ Len(returned') = Len(returned) + 1
            /\ LET l == returned'[Len(returned')]
                   unread == SubSeq(source, pos - Len(line) + 1, Len(source))
               IN  /\ FirstCRLF(unread) # 0
                   /\ l = SubSeq(unread, 1, FirstCRLF(unread) - 1)
                   /\ pos' = pos - Len(line) + Len(l) + 2]_vars

\* The second line returned holds a lone LF and ends in a CR: the source
\* had CR CR LF there
C16_Witness ==
    /\ Len(returned) = 2
    /\ returned[2] = <<"a", ":", " ", "\n", "b", "\r">>
    /\ SubSeq(source, pos - 2, pos) = <<CR, CR, LF>>

\* C17: a successful read_http_request has consumed exactly the request
\* line, the header lines and the blank line, each with its CRLF, and, when
\* a body is declared, exactly the declared number of body bytes; every
\* later byte stays unread, and when Content-Length is absent or does not
\* parse no byte after the blank line is consumed.
C17_ConsumesExactlyTheRequest ==
    /\ [](IsOk(result) =>
            LET end == HeaderBlockEnd(source)
                hs == result.v.headers
                cl == ContentLengthEntries(hs)
                declared == IF cl = {} THEN None ELSE ParseUsize(hs[Min(cl)].value)
            IN  /\ BlankLineIndex(source) # 0
                /\ Len(returned) = BlankLineIndex(source)
                /\ IF IsSome(declared)
                   THEN /\ pos = end + declared.v
                        /\ result.v.body = Some(SubSeq(source, end + 1, pos))
                   ELSE /\ pos = end
                        /\ result.v.body = None)
    /\ [][IsOk(result) => (pos' = pos /\ reads' = reads)]_vars

\* A request that declares two body bytes was decoded from a source that
\* holds three bytes after the blank line: one byte is left unread
C17_Witness ==
    /\ IsOk(result)
    /\ Len(returned) = 3
    /\ pos = HeaderBlockEnd(source) + 2
    /\ Len(source) = pos + 1

\* What the reader owes a pending read: a byte for read_u8 while the source
\* has one, else a step that reports the end of the source or fills the
\* body buffer (a transport failure may come instead, but is never owed)
ReaderAnswers ==
    \/ pc \in Reading /\ pos < Len(source)
    \/ ENABLED <<ReadU8Eof /\ UNCHANGED <<callVars, encoderVars>>>>_vars
    \/ ENABLED <<ReadExactOk /\ UNCHANGED <<callVars, encoderVars>>>>_vars
    \/ ENABLED <<ReadExactEof /\ UNCHANGED <<callVars, encoderVars>>>>_vars

\* The decode is running: it has neither returned nor died
Running == pc \in Reading \cup {"body"}

\* Twice the bytes left unread, and one more while the decode is running
Remaining == 2 * (Len(source) - pos) + (IF Running THEN 1 ELSE 0)

\* C18: on every finite source read_http_request terminates: while it runs
\* the reader's answer always moves it on and every step consumes a byte or
\* ends the decode, so it ends after at most one read per byte and a last
\* one; and it ends by returning a RawRequest, a parse error or Io, with an
\* error when the source has no blank line and with Io when it has no CRLF.
C18_DecodeTerminates ==
    /\ [](Running => ReaderAnswers)
    /\ [][Remaining' < Remaining]_vars
    /\ [](Remaining >= 0 /\ pos <= Len(source) /\ reads <= Len(source) + 1)
    /\ [](~Running =>
            /\ IsOk(result) \/ IsErr(result)
            /\ IsErr(result) =>
                  result.e.kind \in {"Io", "RequestLine", "InvalidHeader"}
            /\ BlankLineIndex(source) = 0 => IsErr(result)
            /\ FirstCRLF(source) = 0 => (IsErr(result) /\ result.e.kind = "Io"))

\* C19: when a decoded request carries several Content-Length headers (any
\* letter case), the first in arrival order alone decides the body: if its
\* value parses the body has that length, and if it does not the body is
\* absent, also when a later Content-Length header has a valid value.
C19_FirstOfSeveralContentLengthsDecides ==
    IsOk(result) =>
        LET hs == result.v.headers
            b == result.v.body
            cl == {i \in 1..Len(hs) : SameIgnoringCase(hs[i].field, ContentLength)}
        IN  Cardinality(cl) >= 2 =>
                LET first == ParseUsize(hs[Min(cl)].value)
                IN  /\ IsSome(first) => (IsSome(b) /\ Len(b.v) = first.v)
                    /\ first = None => b = None

\* The first Content-Length does not parse and the second declares two
\* bytes: the request has no body and the bytes after the blank line are unread
C19_Witness ==
    /\ IsOk(result)
    /\ Len(result.v.headers) = 2
    /\ result.v.headers[1].value = <<"x">>
    /\ result.v.headers[2].value = <<"2">>
    /\ SameIgnoringCase(result.v.headers[1].field, result.v.headers[2].field)
    /\ result.v.body = None
    /\ pos = HeaderBlockEnd(source)
    /\ pos < Len(source)

====
